---- MODULE Spec2Model ----
(***************************************************************************)
(* Model of src/cut_detector.py: detect_cuts (lines 62-148) and the        *)
(* analysis run of the page script that calls it (lines 485-527).          *)
(*                                                                         *)
(* The frame source and the scene detectors are the scenedetect library.   *)
(* What the library hands to this code (frame count, frame rate, the frame *)
(* positions given to the callback, the scene list, exceptions) is drawn   *)
(* nondeterministically from what a single sequential pass can produce.    *)
(* Floating-point values are modelled as exact fractions <<num, den>>.     *)
(***************************************************************************)
EXTENDS Integers, Sequences, FiniteSets, TLC

\* ---------------------------------------------------------------- bounds
MaxFrames == 3        \* frames in an uploaded video: 0..MaxFrames
MaxCallbacks == 2     \* callback invocations during one detect_scenes
MaxMinLen == 4        \* largest min_len_frames passed to detect_cuts
MaxRate == 2          \* the non-zero frame rate of a video
MaxFloor == 2         \* largest built-in min_scene_len of a detector
SessionIdx == 1        \* the frame position reported in a session run

VARIABLES
    video,            \* the uploaded video (session_state video_bytes)
    analysis,         \* session_state["analysis"]: None or <<record>>
    pc,               \* position of the current run
    method,           \* argument of detect_cuts
    min_len_frames,   \* argument of detect_cuts
    temp_file,        \* the temporary copy: "none", "present", "leaked"
    opened,           \* open_video returned a handle
    releaseAttempted, \* release()/close() was called on the handle
    releaseRaised,    \* release() or close() raised (suppressed)
    total_frames,     \* local of detect_cuts
    fps,              \* local of detect_cuts
    detector,         \* detector added to the SceneManager
    callbacks,        \* callback invocations so far in this run
    lastIdx,          \* last frame position the source reported
    delivered,        \* values handed to the progress sink / bar, in order
    sinkRaised,       \* the sink raised on some invocation of this run
    scenes,           \* manager.get_scene_list()
    exc,              \* exception propagating out of the run, or "none"
    result            \* return value of detect_cuts: None or <<record>>

vars == <<video, analysis, pc, method, min_len_frames,
          temp_file, opened, releaseAttempted, releaseRaised, total_frames,
          fps, detector, callbacks, lastIdx, delivered, sinkRaised, scenes,
          exc, result>>

\* ------------------------------------------------------------ value model
None == <<>>
Some(x) == <<x>>

Max(a, b) == IF a >= b THEN a ELSE b

\* exact fractions with a positive denominator
Frac(n, d) == <<n, d>>
FZero == Frac(0, 1)
FLe(a, b) == a[1] * b[2] <= b[1] * a[2]
FLt(a, b) == a[1] * b[2] < b[1] * a[2]
FEq(a, b) == a[1] * b[2] = b[1] * a[2]
FSub(a, b) == Frac(a[1] * b[2] - b[1] * a[2], a[2] * b[2])
\* Python's min(a, b) / max(a, b): the first argument wins a tie
FMin(a, b) == IF FLt(b, a) THEN b ELSE a
FMax(a, b) == IF FLt(a, b) THEN b ELSE a

Methods == {"content", "adaptive", "threshold"}
MinLens == (0 - 1)..MaxMinLen
MinIdx == 0 - 1

NoVideo == [loaded |-> FALSE, frames |-> 0, known |-> FALSE, rate |-> 0,
            transitions |-> {}]

\* an uploaded file: its real frame count, whether the container reports a
\* duration, its frame rate (0 if unknown), and the frames at which the
\* picture changes
Videos ==
    { v \in [loaded : {TRUE}, frames : 0..MaxFrames, known : BOOLEAN,
             rate : {0, MaxRate}, transitions : SUBSET (1..MaxFrames)] :
        \A t \in v.transitions : t < v.frames }

\* --------------------------------------------- the library's scene detector
\* candidates in frame order; one closer than floor to the previous accepted
\* boundary (initially the start of the video) is discarded
RECURSIVE AcceptCuts(_, _, _, _)
AcceptCuts(candidates, floor, last, acc) ==
    IF candidates = {} THEN acc
    ELSE LET c == CHOOSE x \in candidates : \A y \in candidates : x <= y
         IN IF c - last < floor
            THEN AcceptCuts(candidates \ {c}, floor, last, acc)
            ELSE AcceptCuts(candidates \ {c}, floor, c, Append(acc, c))

\* get_scene_list(): the (start, end) pairs between consecutive boundaries,
\* the first starting at frame 0 and the last ending after the last frame
ScenesFromCuts(cuts, frames) ==
    IF frames = 0 THEN <<>>
    ELSE LET b == <<0>> \o cuts \o <<frames>>
         IN [i \in 1..(Len(b) - 1) |-> <<b[i], b[i + 1]>>]

SceneList(v, floor) ==
    ScenesFromCuts(AcceptCuts(v.transitions, floor, 0, <<>>), v.frames)

\* ------------------------------------------------------------- detect_cuts
\* line 64: video.duration.get_frames() if video.duration else 0
TotalFrames(v) == IF v.known THEN v.frames ELSE 0

\* line 65: float(video.frame_rate) if video.frame_rate else 0.0
FrameRate(v) == IF v.rate # 0 THEN v.rate ELSE 0

\* lines 68-73: the detector is built with no arguments: min_len_frames is
\* not passed to it, and its min_scene_len stays the library's default
NoDetector == "none"
DetectorFor(m) ==
    IF m = "adaptive" THEN "AdaptiveDetector"
    ELSE IF m = "content" THEN "ContentDetector"
    ELSE "ThresholdDetector"

\* what the source passes as the callback's first argument
FrameTimes ==
    {[kind |-> "none", idx |-> 0], [kind |-> "unconvertible", idx |-> 0]}
    \cup [kind : {"timecode", "int"}, idx : MinIdx..(MaxFrames + 1)]

\* line 96
ProgressFractionUnclamped(frame_idx, total) ==
    FMin(Frac(frame_idx, total), Frac(999, 1000))
ProgressFractionUncapped(frame_idx, total) == Frac(Max(frame_idx, 0), total)
ProgressFraction(frame_idx, total) ==
    FMin(Frac(Max(frame_idx, 0), total), Frac(999, 1000))

\* lines 75-96: None when _progress returns before reaching the sink,
\* otherwise the fraction it hands to progress_callback
ProgressValueNoZeroGuard(ft, total) ==
    IF ft.kind = "none" THEN None
    ELSE IF ft.kind = "unconvertible" THEN None
    ELSE Some(ProgressFraction(ft.idx, total))
ProgressValue(ft, total) ==
    IF total = 0 THEN None
    ELSE IF ft.kind = "none" THEN None
    ELSE IF ft.kind = "unconvertible" THEN None
    ELSE Some(ProgressFraction(ft.idx, total))

\* lines 97-98: with suppress(Exception) around the sink call; the value is
\* the exception that leaves _progress
SinkNotSuppressed(raised) == IF raised THEN "SinkFailure" ELSE "none"
SinkOutcome(raised) == "none"

\* line 124: duration_frames = end_frame - start_frame
DurationFramesInclusive(start_frame, end_frame) == end_frame - start_frame + 1
DurationFrames(start_frame, end_frame) == end_frame - start_frame

\* line 125: if duration_frames < min_len_frames: continue
KeepSceneInverted(duration_frames, min_len) == ~(duration_frames > min_len)
KeepScene(duration_frames, min_len) == ~(duration_frames < min_len)

\* line 131: "index": len(segments) + 1
SegmentIndexByScene(segments, position) == position
SegmentIndex(segments, position) == Len(segments) + 1

\* lines 122-138: the record appended for one retained scene
SegmentUnguarded(index, start_frame, end_frame, rate) ==
    LET start_seconds == Frac(start_frame, rate)
        end_seconds == Frac(end_frame, rate)
    IN [index |-> index,
        start_frame |-> start_frame,
        end_frame |-> end_frame,
        duration_frames |-> DurationFrames(start_frame, end_frame),
        start_time |-> start_seconds,
        end_time |-> end_seconds,
        duration_seconds |-> FMax(FSub(end_seconds, start_seconds), FZero)]
Segment(index, start_frame, end_frame, rate) ==
    LET start_seconds == IF rate # 0 THEN Frac(start_frame, rate) ELSE FZero
        end_seconds == IF rate # 0 THEN Frac(end_frame, rate) ELSE FZero
    IN [index |-> index,
        start_frame |-> start_frame,
        end_frame |-> end_frame,
        duration_frames |-> DurationFrames(start_frame, end_frame),
        start_time |-> start_seconds,
        end_time |-> end_seconds,
        duration_seconds |-> FMax(FSub(end_seconds, start_seconds), FZero)]

\* lines 120-139: the loop over the scene list, from position i on
RECURSIVE AssembleFrom(_, _, _, _, _)
AssembleFrom(sc, i, min_len, rate, segments) ==
    IF i > Len(sc) THEN segments
    ELSE LET start_frame == sc[i][1]
             end_frame == sc[i][2]
             duration_frames == DurationFrames(start_frame, end_frame)
         IN IF ~KeepScene(duration_frames, min_len)
            THEN AssembleFrom(sc, i + 1, min_len, rate, segments)
            ELSE AssembleFrom(sc, i + 1, min_len, rate,
                     Append(segments,
                            Segment(SegmentIndex(segments, i), start_frame,
                                    end_frame, rate)))

AssembleSegments(sc, min_len, rate) == AssembleFrom(sc, 1, min_len, rate, <<>>)

\* lines 141-148
DetectResult(sc, min_len, total, rate) ==
    [segments |-> AssembleSegments(sc, min_len, rate),
     total_frames |-> total,
     fps |-> rate,
     duration_seconds |-> IF rate # 0 THEN Frac(total, rate) ELSE FZero]

\* lines 109-117: the finally block calls release() and close(), each under
\* suppress(Exception); the value is the exception that leaves the block
ReleaseOutcome(raised) == "none"

\* lines 510-514: the analysis stored after detect_cuts returned
StoredAnalysis(res, m, min_len) ==
    Some([segments |-> res.segments,
          total_frames |-> res.total_frames,
          fps |-> res.fps,
          duration_seconds |-> res.duration_seconds,
          method |-> m,
          min_len_frames |-> min_len])

\* lines 518-519: the analysis stored by the except branch
ExceptAnalysisKeepsPrevious(previous) == previous
ExceptAnalysis(previous) == None

\* ------------------------------------------------------------------ state
Init ==
    /\ video = NoVideo
    /\ analysis = None
    /\ pc = "idle"
    /\ method = "content"
    /\ min_len_frames = 15
    /\ temp_file = "none"
    /\ delivered = <<>>
    /\ exc = "none"
    /\ result = None
    /\ opened = FALSE
    /\ releaseAttempted = FALSE
    /\ releaseRaised = FALSE
    /\ total_frames = 0
    /\ fps = 0
    /\ detector = NoDetector
    /\ callbacks = 0
    /\ lastIdx = MinIdx
    /\ sinkRaised = FALSE
    /\ scenes = <<>>

\* the locals of a detect_cuts call that has ended
FrameGone ==
    /\ total_frames' = 0
    /\ fps' = 0
    /\ detector' = NoDetector
    /\ callbacks' = 0
    /\ lastIdx' = MinIdx
    /\ scenes' = <<>>

\* nothing of the previous run is left when a run starts or has been handled
RunGone ==
    /\ opened' = FALSE
    /\ releaseAttempted' = FALSE
    /\ releaseRaised' = FALSE
    /\ sinkRaised' = FALSE
    /\ FrameGone

frame == <<total_frames, fps, detector, callbacks, lastIdx, scenes>>
handle == <<opened, releaseAttempted, releaseRaised>>
session == <<video, analysis>>
args == <<method, min_len_frames>>

\* lines 473-483: a new file is uploaded; reset_analysis_state()
Upload(v) ==
    /\ pc \in {"idle", "done"}
    /\ v # video
    /\ video' = v
    /\ analysis' = None
    /\ pc' = "idle"
    /\ temp_file' = "none"
    /\ delivered' = <<>>
    /\ exc' = "none"
    /\ result' = None
    /\ RunGone
    /\ UNCHANGED args

\* lines 485-503: the run that starts when the form is submitted
StartRun(m, n) ==
    /\ video.loaded
    /\ method' = m
    /\ min_len_frames' = n
    /\ pc' = "tempfile"
    /\ temp_file' = "none"
    /\ delivered' = <<>>
    /\ exc' = "none"
    /\ result' = None
    /\ RunGone
    /\ UNCHANGED session

\* lines 452-471: the form is submitted for a freshly uploaded video
Submit(m, n) ==
    /\ pc = "idle"
    /\ StartRun(m, n)

\* lines 452-471: the form is submitted again after an earlier run
Resubmit(m, n) ==
    /\ pc = "done"
    /\ StartRun(m, n)

\* lines 505-507: the bytes are written to a temporary file
WriteTemp(ok) ==
    /\ pc = "tempfile"
    /\ IF ok
       THEN /\ temp_file' = "present"
            /\ pc' = "open"
            /\ exc' = exc
       ELSE /\ temp_file' = "none"
            /\ pc' = "raised"
            /\ exc' = "OSError"
    /\ UNCHANGED <<session, args, delivered, result, sinkRaised, handle, frame>>

\* line 63: open_video(path)
OpenVideo(ok) ==
    /\ pc = "open"
    /\ IF ok
       THEN /\ opened' = TRUE
            /\ pc' = "meta"
            /\ exc' = exc
       ELSE /\ opened' = FALSE
            /\ pc' = "raised"
            /\ exc' = "SourceUnavailable"
    /\ UNCHANGED <<session, args, temp_file, delivered, result, sinkRaised,
                   releaseAttempted, releaseRaised, frame>>

\* lines 64-65: frame count and frame rate are read from the handle; a
\* failure here leaves detect_cuts before the try block is entered
ReadMeta(ok) ==
    /\ pc = "meta"
    /\ IF ok
       THEN /\ total_frames' = TotalFrames(video)
            /\ fps' = FrameRate(video)
            /\ pc' = "setup"
            /\ exc' = exc
       ELSE /\ UNCHANGED <<total_frames, fps>>
            /\ pc' = "raised"
            /\ exc' = "MetadataError"
    /\ UNCHANGED <<session, args, temp_file, delivered, result, sinkRaised,
                   handle, detector, callbacks, lastIdx, scenes>>

\* lines 67-105: SceneManager, detector and callback keyword are set up,
\* still before the try block
SetupDetector(ok) ==
    /\ pc = "setup"
    /\ IF ok
       THEN /\ detector' = DetectorFor(method)
            /\ UNCHANGED <<total_frames, fps>>
            /\ pc' = "detect"
            /\ exc' = exc
       ELSE /\ detector' = NoDetector
            /\ total_frames' = 0
            /\ fps' = 0
            /\ pc' = "raised"
            /\ exc' = "SetupError"
    /\ UNCHANGED <<session, args, temp_file, delivered, result, sinkRaised,
                   handle, callbacks, lastIdx, scenes>>

\* lines 75-98: detect_scenes invokes _progress(ft); the sink may raise.
\* Frame positions come from one sequential pass, so they do not decrease.
ProgressCallback(ft, raises) ==
    /\ pc = "detect"
    /\ callbacks < MaxCallbacks
    /\ ft.kind \in {"timecode", "int"} => ft.idx >= lastIdx
    /\ callbacks' = callbacks + 1
    /\ lastIdx' = IF ft.kind \in {"timecode", "int"} THEN ft.idx ELSE lastIdx
    /\ LET pv == ProgressValue(ft, total_frames)
       IN IF pv = None
          THEN /\ ~raises
               /\ UNCHANGED <<delivered, sinkRaised, exc, pc>>
          ELSE /\ delivered' = Append(delivered,
                                      [by |-> "reporter", value |-> pv[1]])
               /\ sinkRaised' = (sinkRaised \/ raises)
               /\ exc' = SinkOutcome(raises)
               /\ pc' = IF SinkOutcome(raises) = "none" THEN "detect"
                        ELSE "finally"
    /\ UNCHANGED <<session, args, temp_file, result, handle, total_frames,
                   fps, detector, scenes>>

\* line 108: detect_scenes ends, either at end of stream, the manager then
\* holding the scene list that line 119 fetches, or with an error raised
\* mid-stream, after which the manager's list is never fetched. `floor` is
\* the min_scene_len the library gave the detector.
DetectScenes(ok, floor) ==
    /\ pc = "detect"
    /\ IF ok
       THEN /\ scenes' = SceneList(video, floor)
            /\ exc' = exc
       ELSE /\ scenes' = scenes
            /\ exc' = "DecodeError"
    /\ pc' = "finally"
    /\ callbacks' = 0
    /\ lastIdx' = MinIdx
    /\ UNCHANGED <<session, args, temp_file, delivered, result, sinkRaised,
                   handle, total_frames, fps, detector>>

\* lines 109-117: the finally block of detect_cuts; when an exception
\* leaves it the call is over
Finally(relRaises, closeRaises) ==
    /\ pc = "finally"
    /\ releaseAttempted' = TRUE
    /\ releaseRaised' = (relRaises \/ closeRaises)
    /\ LET leaving == IF ReleaseOutcome(relRaises \/ closeRaises) # "none"
                      THEN ReleaseOutcome(relRaises \/ closeRaises)
                      ELSE exc
       IN /\ exc' = leaving
          /\ IF leaving = "none"
             THEN /\ pc' = "assemble"
                  /\ UNCHANGED frame
             ELSE /\ pc' = "raised"
                  /\ FrameGone
    /\ UNCHANGED <<session, args, temp_file, delivered, result, sinkRaised,
                   opened>>

\* lines 119-148: segment assembly and return
Assemble ==
    /\ pc = "assemble"
    /\ result' = Some(DetectResult(scenes, min_len_frames, total_frames, fps))
    /\ pc' = "returned"
    /\ UNCHANGED <<session, args, temp_file, delivered, exc, sinkRaised,
                   handle, frame>>

\* lines 522-527: the temporary file is removed, or stays if every retry fails
RemoveTemp(removed) ==
    temp_file' = IF temp_file = "present" /\ ~removed THEN "leaked" ELSE "none"

\* lines 508-517, 522-527: detect_cuts returned
CallerSuccess(removed) ==
    /\ pc = "returned"
    /\ delivered' = Append(delivered,
                           [by |-> "orchestrator", value |-> Frac(1, 1)])
    /\ analysis' = StoredAnalysis(result[1], method, min_len_frames)
    /\ RemoveTemp(removed)
    /\ pc' = "done"
    /\ RunGone
    /\ UNCHANGED <<video, args, exc, result>>

\* lines 518-527: an exception reached the page script
CallerExcept(removed) ==
    /\ pc = "raised"
    /\ analysis' = ExceptAnalysis(analysis)
    /\ RemoveTemp(removed)
    /\ pc' = "done"
    /\ RunGone
    /\ UNCHANGED <<video, args, exc, result, delivered>>

\* the steps of one run, with the callback's argument drawn from `fts`
RunSteps(fts) ==
    \/ \E ok \in BOOLEAN : WriteTemp(ok)
    \/ \E ok \in BOOLEAN : OpenVideo(ok)
    \/ \E ok \in BOOLEAN : ReadMeta(ok)
    \/ \E ok \in BOOLEAN : SetupDetector(ok)
    \/ \E ft \in fts, raises \in BOOLEAN : ProgressCallback(ft, raises)
    \/ \E ok \in BOOLEAN, floor \in 1..MaxFloor : DetectScenes(ok, floor)
    \/ \E r \in BOOLEAN, c \in BOOLEAN : Finally(r, c)
    \/ Assemble
    \/ \E removed \in BOOLEAN : CallerSuccess(removed)
    \/ \E removed \in BOOLEAN : CallerExcept(removed)

\* one analysis run of an uploaded video, any callback argument
NextRun ==
    \/ \E v \in Videos : (pc = "idle" /\ Upload(v))
    \/ \E m \in Methods, n \in MinLens : Submit(m, n)
    \/ RunSteps(FrameTimes)

SpecRun == Init /\ [][NextRun]_vars

\* a session: runs follow each other on the same video; the callback
\* reports one frame position and the video has a known duration and rate
SessionVideos == {v \in Videos : v.known /\ v.rate # 0}
SessionFrameTimes == {[kind |-> "int", idx |-> SessionIdx]}

Next ==
    \/ \E v \in SessionVideos : Upload(v)
    \/ \E m \in Methods, n \in MinLens : Submit(m, n)
    \/ \E m \in Methods, n \in MinLens : Resubmit(m, n)
    \/ RunSteps(SessionFrameTimes)

Spec == Init /\ [][Next]_vars

\* ------------------------------------------------------------- properties
Cap == Frac(999, 1000)
Returned == pc = "returned"
Segs == result[1].segments
Pairs(segs) == [i \in 1..Len(segs) |-> <<segs[i].start_frame, segs[i].end_frame>>]
Reported == {i \in 1..Len(delivered) : delivered[i].by = "reporter"}

RECURSIVE SumDurations(_)
SumDurations(segs) ==
    IF segs = <<>> THEN 0
    ELSE Head(segs).duration_frames + SumDurations(Tail(segs))

LongEnough(p) == p[2] - p[1] >= min_len_frames
AtLeastOneFrame(p) == p[2] - p[1] >= 1

\* what the run returns when nothing fails: the detector's scene list for the
\* video, assembled with the arguments and the video's frame count and rate
DetectorScenes == {SceneList(video, floor) : floor \in 1..MaxFloor}
ExpectedResults ==
    {DetectResult(sc, min_len_frames, TotalFrames(video), FrameRate(video)) :
        sc \in DetectorScenes}

\* C1: for min_len_frames >= 1 the returned segments are strictly ordered by
\* start_frame, pairwise non-overlapping (end_frame <= the next start_frame),
\* and each has duration_frames >= min_len_frames.
C1_OrderedDisjointLongEnough ==
    (Returned /\ min_len_frames >= 1) =>
        /\ \A i, j \in 1..Len(Segs) :
              i < j => /\ Segs[i].start_frame < Segs[j].start_frame
                       /\ Segs[i].end_frame <= Segs[j].start_frame
        /\ \A i \in 1..Len(Segs) : Segs[i].duration_frames >= min_len_frames

C1_Witness ==
    /\ Returned
    /\ min_len_frames >= 1
    /\ Len(Segs) >= 2
    /\ Segs[1].duration_frames > Segs[2].duration_frames

\* C2 (as claimed): once the frame source has been opened, every exit of
\* detect_cuts, by return or by exception, has attempted to release it, and
\* no exception of the release leaves detect_cuts.
C2_ReleaseOnEveryExit ==
    (pc \in {"returned", "raised"} /\ opened) =>
        (releaseAttempted /\ exc # "ReleaseError")

\* C3: when a run fails, detect_cuts returns no result (the error reaches the
\* page script instead of a segment list), and once the page script has
\* handled the failure the stored analysis is None, whatever an earlier run
\* had stored.
C3_AllOrNothing ==
    /\ exc # "none" => (pc \in {"finally", "raised", "done"} /\ result = None)
    /\ (pc = "done" /\ exc # "none") => analysis = None
    /\ (pc = "done" /\ exc = "none") => analysis # None

C3_Witness ==
    /\ pc = "done"
    /\ exc = "DecodeError"
    /\ delivered # <<>>
    /\ analysis = None

\* C4: an exception of the progress sink never leaves _progress: the run is
\* not failed by it, detection goes on, and the returned result is the one
\* determined by the video and the arguments alone.
C4_SinkFailureDiscarded ==
    sinkRaised =>
        /\ exc \in {"none", "DecodeError"}
        /\ pc \in {"detect", "finally", "assemble", "returned", "raised"}
        /\ pc = "raised" => exc = "DecodeError"
        /\ Returned => result[1] \in ExpectedResults

C4_Witness ==
    /\ Returned
    /\ sinkRaised
    /\ Len(delivered) = MaxCallbacks
    /\ Len(Segs) >= 1

\* C5: the values _progress hands to the sink during a run are non-decreasing
\* and lie in [0, 0.999], for frame positions below 0 and above total_frames
\* too; the only later value is the completion signal, which is above 0.999.
C5_ProgressMonotoneBounded ==
    /\ \A i \in Reported :
          /\ FLe(FZero, delivered[i].value)
          /\ FLe(delivered[i].value, Cap)
    /\ \A i, j \in Reported :
          i < j => FLe(delivered[i].value, delivered[j].value)
    /\ \A i \in 1..Len(delivered) :
          delivered[i].by = "orchestrator" =>
              /\ i = Len(delivered)
              /\ pc = "done"
              /\ FLt(Cap, delivered[i].value)

C5_Witness ==
    /\ pc = "detect"
    /\ Len(delivered) = 2
    /\ FEq(delivered[1].value, FZero)
    /\ delivered[2].value = Cap
    /\ lastIdx > total_frames

C7_FloorIsConfiguredMinimum ==
    (pc \in {"assemble", "returned"} /\ min_len_frames >= 1) =>
        \A i \in 2..Len(scenes) :
            scenes[i][1] - scenes[i - 1][1] >= min_len_frames

\* C8: with min_len_frames <= 0 the result is the one a minimum of 1 gives:
\* every scene of at least one frame is retained, and no returned segment is
\* zero-width (start_frame < end_frame).
C8_NonPositiveMinimumAsOne ==
    (Returned /\ min_len_frames <= 0) =>
        /\ Pairs(Segs) = SelectSeq(scenes, AtLeastOneFrame)
        /\ \A i \in 1..Len(Segs) : Segs[i].start_frame < Segs[i].end_frame

C8_Witness ==
    /\ Returned
    /\ min_len_frames < 0
    /\ Len(Segs) >= 2

C10_DropAndRenumber ==
    Returned =>
        /\ Pairs(Segs) = SelectSeq(scenes, LongEnough)
        /\ \A i \in 1..Len(Segs) :
              /\ Segs[i].index = i
              /\ Segs[i].duration_frames = Segs[i].end_frame - Segs[i].start_frame

C10_Witness ==
    /\ Returned
    /\ Len(scenes) >= 2
    /\ Len(Segs) = 1
    /\ Segs[1].start_frame > 0
    /\ Segs[1].index = 1

\* the entries of `delivered` that signal completion (a value of 1.0 or more,
\* which the bar shows as 100%)
Completions ==
    {i \in 1..Len(delivered) : FLe(Frac(1, 1), delivered[i].value)}

\* C11: the completion signal 1.0 is emitted exactly once in a successful
\* run, by the caller after detect_cuts has returned and after every
\* fractional value of the run; the progress reporter never emits it, and a
\* failed run emits none.
C11_CompletionOnceByCaller ==
    /\ \A i \in Completions :
          /\ delivered[i].by = "orchestrator"
          /\ i = Len(delivered)
          /\ result # None
    /\ pc # "done" => Completions = {}
    /\ (pc = "done" /\ exc = "none") => Cardinality(Completions) = 1
    /\ (pc = "done" /\ exc # "none") => Completions = {}

C11_Witness ==
    /\ pc = "done"
    /\ exc = "none"
    /\ Len(delivered) = MaxCallbacks + 1
    /\ delivered[MaxCallbacks].value = Cap
    /\ Completions = {Len(delivered)}

FrameFields(segs) ==
    [i \in 1..Len(segs) |->
        <<segs[i].index, segs[i].start_frame, segs[i].end_frame,
          segs[i].duration_frames>>]

\* C12: with fps = 0 every returned segment has start_time, end_time and
\* duration_seconds equal to 0 and the result's duration_seconds is 0, while
\* the retained segments and their frame fields are those a non-zero fps
\* gives; for any fps no segment's duration_seconds is negative.
C12_ZeroFpsTimes ==
    Returned =>
        /\ \A i \in 1..Len(Segs) : FLe(FZero, Segs[i].duration_seconds)
        /\ result[1].fps = 0 =>
              /\ \A i \in 1..Len(Segs) :
                    /\ Segs[i].start_time = FZero
                    /\ Segs[i].end_time = FZero
                    /\ Segs[i].duration_seconds[1] = 0
                    /\ Segs[i].duration_seconds[2] # 0
              /\ result[1].duration_seconds = FZero
              /\ Pairs(Segs) = SelectSeq(scenes, LongEnough)
              /\ FrameFields(Segs) =
                    FrameFields(AssembleSegments(scenes, min_len_frames, MaxRate))

C12_Witness ==
    /\ Returned
    /\ result[1].fps = 0
    /\ result[1].total_frames > 0
    /\ Len(Segs) >= 1
    /\ Len(scenes) > Len(Segs)
    /\ Segs[1].end_frame > Segs[1].start_frame

====
